---- MODULE Spec2Model ----
(***************************************************************************)
(* Model of the temperature-challenge program: main() fetches the 100      *)
(* most populous US cities, resolves every coordinate pair to a WOE ID,    *)
(* fetches the temperature of every WOE ID and prints the average.         *)
(*                                                                         *)
(* One action is one blocking component call of main() together with the   *)
(* code of main() that handles its outcome.  The remote services are the   *)
(* environment: every call draws its HTTP outcome from a small set.        *)
(* Temperatures are integers (the float64 arithmetic of the program is     *)
(* exact on them); the formatted mean is kept in hundredths.               *)
(***************************************************************************)
EXTENDS Integers, Sequences, FiniteSets, TLC

\* var coords [100]coordinates
NumCities == 100

\* Largest number of records a cities response carries in the model.
MaxRecords == 101

nil == "nil"
ErrNot100Cities == "ErrNot100Cities"
ErrNoTemperature == "ErrNoTemperature"
ErrNoWoe == "ErrNoWoe"
\* httpClient.Get failed / ioutil.ReadAll failed
ErrGet == "ErrGet"
ErrRead == "ErrRead"

VARIABLES
    pc,          \* position of main()
    coords,      \* [100]coordinates, indexed 0..99
    i,           \* index of the range loop over coords
    woeID,       \* var woeID int64 of the current iteration
    err,         \* var err error
    tempCount,
    tempSum,
    skipLogged,  \* number of "Continuing anyways." lines written
    summary,     \* the summary lines written
    fatal,       \* the Fatalf lines written
    lastOut,     \* kind of the last line written
    exitCode,    \* -1 while the process runs
    cityCalls,   \* HTTP requests issued, per endpoint
    woeCalls,
    tempCalls,
    lastReq,     \* the last HTTP request issued
    cityResp,    \* history: the outcome of the cities request
    noTemp,      \* history: temperature fetches that ended with ErrNoTemperature
    gotSum,      \* history: sum of the readings woeIDTemperature returned
    probe        \* input and results of the extraction functions (ExtractSpec)

vars == <<pc, coords, i, woeID, err, tempCount, tempSum, skipLogged, summary,
          fatal, lastOut, exitCode, cityCalls, woeCalls, tempCalls, lastReq,
          cityResp, noTemp, gotSum, probe>>

progVars == <<pc, coords, i, woeID, err, tempCount, tempSum, skipLogged, summary,
              fatal, lastOut, exitCode, cityCalls, woeCalls, tempCalls, lastReq,
              cityResp, noTemp, gotSum>>

(***************************************************************************)
(* JSON values as gjson sees them.                                         *)
(***************************************************************************)

\* A gjson.Result of a numeric field: a missing path has Exists() false.
Missing == [exists |-> FALSE, num |-> 0]
Num(n) == [exists |-> TRUE, num |-> n]

\* gjson.GetBytes(respJSON, "0.<field>") on a body that is a JSON array.
GetFirst(body, field) ==
    IF Len(body) = 0 THEN Missing ELSE body[1][field]

\* Result.Int() and Result.Float(): a missing result converts to 0.
ResultInt(r) == IF r.exists THEN r.num ELSE 0
ResultFloat(r) == IF r.exists THEN r.num ELSE 0

\* The outcome of httpClient.Get followed by ioutil.ReadAll.
GetFailed == [kind |-> "getErr", body |-> <<>>]
ReadFailed == [kind |-> "readErr", body |-> <<>>]
Body(b) == [kind |-> "ok", body |-> b]
NoResp == [kind |-> "none", body |-> <<>>]

\* err of the two transport steps every component starts with.
TransportErr(resp) ==
    IF resp.kind = "getErr" THEN ErrGet
    ELSE IF resp.kind = "readErr" THEN ErrRead
    ELSE nil

(***************************************************************************)
(* The three components.                                                   *)
(***************************************************************************)

ZeroCoord == [Latitude |-> 0, Longitude |-> 0]
ZeroCoords == [k \in 0 .. NumCities - 1 |-> ZeroCoord]

\* currentCords := &coordinates{cityJSON.Get("0").Float(), cityJSON.Get("1").Float()}
ToCoord(cityJSON) ==
    [Latitude |-> ResultFloat(cityJSON[1]), Longitude |-> ResultFloat(cityJSON[2])]

\* for index, cityJSON = range records.Array() { coords[index] = ... }
\* k records are consumed; storing at an index outside the array panics.
RECURSIVE CityLoop(_, _, _)
CityLoop(records, k, cs) ==
    IF k = Len(records)
    THEN [coords |-> cs, index |-> IF k = 0 THEN 0 ELSE k - 1, panic |-> FALSE]
    ELSE IF k \notin DOMAIN cs
    THEN [coords |-> cs, index |-> k, panic |-> TRUE]
    ELSE CityLoop(records, k + 1, [cs EXCEPT ![k] = ToCoord(records[k + 1])])

largest100USCities_NoCountCheck(resp) ==
    IF TransportErr(resp) # nil
    THEN [coords |-> ZeroCoords, err |-> TransportErr(resp), panic |-> FALSE]
    ELSE LET l == CityLoop(resp.body, 0, ZeroCoords)
         IN  IF l.panic
             THEN [coords |-> l.coords, err |-> nil, panic |-> TRUE]
             ELSE IF Len(resp.body) = 0
             THEN [coords |-> l.coords, err |-> ErrNot100Cities, panic |-> FALSE]
             ELSE [coords |-> l.coords, err |-> nil, panic |-> FALSE]

largest100USCities(resp) ==
    IF TransportErr(resp) # nil
    THEN [coords |-> ZeroCoords, err |-> TransportErr(resp), panic |-> FALSE]
    ELSE LET l == CityLoop(resp.body, 0, ZeroCoords)
         IN  IF l.panic
             THEN [coords |-> l.coords, err |-> nil, panic |-> TRUE]
             ELSE IF l.index # NumCities - 1
             THEN [coords |-> l.coords, err |-> ErrNot100Cities, panic |-> FALSE]
             ELSE [coords |-> l.coords, err |-> nil, panic |-> FALSE]

coordinateWOEID_NoZeroCheck(resp) ==
    IF TransportErr(resp) # nil
    THEN [woeID |-> 0, err |-> TransportErr(resp)]
    ELSE IF Len(resp.body) = 0
    THEN [woeID |-> 0, err |-> ErrNoWoe]
    ELSE [woeID |-> ResultInt(GetFirst(resp.body, "woeid")), err |-> nil]

coordinateWOEID(resp) ==
    IF TransportErr(resp) # nil
    THEN [woeID |-> 0, err |-> TransportErr(resp)]
    ELSE LET w == ResultInt(GetFirst(resp.body, "woeid"))
         IN  IF w = 0
             THEN [woeID |-> 0, err |-> ErrNoWoe]
             ELSE [woeID |-> w, err |-> nil]

woeIDTemperature(resp) ==
    IF TransportErr(resp) # nil
    THEN [temperature |-> 0, err |-> TransportErr(resp)]
    ELSE LET t == ResultFloat(GetFirst(resp.body, "the_temp"))
         IN  IF t = 0
             THEN [temperature |-> 0, err |-> ErrNoTemperature]
             ELSE [temperature |-> t, err |-> nil]

(***************************************************************************)
(* The remote services.  The cities endpoint answers with n records; the   *)
(* j-th record carries the coordinates [j, -j].  The search endpoint       *)
(* knows one WOE ID per coordinate pair and the weather endpoint one       *)
(* reading per WOE ID; each call may also fail in transport or answer      *)
(* without the field.                                                      *)
(***************************************************************************)

CityRecord(j) == <<Num(j), Num(-j)>>
CityBody(n) == [j \in 1 .. n |-> CityRecord(j)]
CityResponses ==
    {GetFailed, ReadFailed} \cup {Body(CityBody(n)) : n \in 0 .. MaxRecords}

ServerWoe(c) == 2000 + c.Latitude
WoeResponses(c) ==
    {GetFailed, ReadFailed, Body(<<>>),
     Body(<<[woeid |-> Missing]>>),
     Body(<<[woeid |-> Num(0)]>>),
     Body(<<[woeid |-> Num(ServerWoe(c))], [woeid |-> Num(ServerWoe(c) + 1)]>>)}

ServerTemp(w) == IF w = 2001 THEN -3 ELSE IF w = 2002 THEN 72 ELSE 70
TempResponses(w) ==
    {GetFailed, ReadFailed, Body(<<>>),
     Body(<<[the_temp |-> Missing]>>),
     Body(<<[the_temp |-> Num(0)]>>),
     Body(<<[the_temp |-> Num(ServerTemp(w))], [the_temp |-> Num(0)]>>)}

\* The requests main() issues (the URL is kept as its parameters; the date
\* of the temperature URL is left out).
NoRequest == [kind |-> "none", lat |-> 0, lon |-> 0, woeid |-> 0]
CityRequest == [kind |-> "city", lat |-> 0, lon |-> 0, woeid |-> 0]
WoeRequest(c) == [kind |-> "woe", lat |-> c.Latitude, lon |-> c.Longitude, woeid |-> 0]
TempRequest(w) == [kind |-> "temp", lat |-> 0, lon |-> 0, woeid |-> w]

(***************************************************************************)
(* main()                                                                  *)
(***************************************************************************)

\* Round a/b (b > 0) to the nearest integer, ties to even.
RoundDiv(a, b) ==
    LET q == a \div b
        r == a % b
    IN  IF 2 * r < b THEN q
        ELSE IF 2 * r > b THEN q + 1
        ELSE IF q % 2 = 0 THEN q ELSE q + 1

\* "%.2f" of tempSum/tempCount, in hundredths; float64 division by zero
\* gives NaN or an infinity.
FormatMean(sum, count) ==
    IF count = 0
    THEN [kind |-> IF sum = 0 THEN "NaN" ELSE "Inf", hundredths |-> 0]
    ELSE [kind |-> "num", hundredths |-> RoundDiv(100 * sum, count)]

\* for _, coord := range coords
LoopCoord_Reversed(cs, idx) == cs[NumCities - 1 - idx]

LoopCoord(cs, idx) == cs[idx]

\* if woeID, err = coordinateWOEID(...); err != nil { logger.Fatalf(...) }
WoeErrIsFatal_ExceptNoWoe(e) == e # nil /\ e # ErrNoWoe

WoeErrIsFatal(e) == e # nil

\* errors.Is(err, ErrNoTemperature)
TempErrIsRecoverable_Any(e) == TRUE

TempErrIsRecoverable(e) == e = ErrNoTemperature

\* tempCount += 1; tempSum += temperature, reached after a nil error and
\* after the logged ErrNoTemperature alike.
Accumulate_SummedOnly(count, sum, temperature, e) ==
    IF e # nil
    THEN [count |-> count, sum |-> sum]
    ELSE [count |-> count + 1, sum |-> sum + temperature]

Accumulate(count, sum, temperature, e) ==
    [count |-> count + 1, sum |-> sum + temperature]

\* logger.Fatalf: write the line, os.Exit(1).
Fatalf(what, e) ==
    /\ pc' = "aborted"
    /\ exitCode' = 1
    /\ fatal' = Append(fatal, [what |-> what, err |-> e])
    /\ lastOut' = "fatal"
    /\ UNCHANGED <<skipLogged, summary>>

ProbeIdle ==
    [resp |-> NoResp,
     woe |-> [woeID |-> 0, err |-> "unset"],
     temp |-> [temperature |-> 0, err |-> "unset"]]

InitProgram ==
    /\ pc = "cities"
    /\ coords = ZeroCoords
    /\ i = 0
    /\ woeID = 0
    /\ err = nil
    /\ tempCount = 0
    /\ tempSum = 0
    /\ skipLogged = 0
    /\ summary = <<>>
    /\ fatal = <<>>
    /\ lastOut = "none"
    /\ exitCode = -1
    /\ cityCalls = 0
    /\ woeCalls = 0
    /\ tempCalls = 0
    /\ lastReq = NoRequest
    /\ cityResp = NoResp
    /\ noTemp = 0
    /\ gotSum = 0

Init ==
    /\ InitProgram
    /\ probe = ProbeIdle

\* coords, err = largest100USCities(httpClient, cityURL)
FetchCities ==
    /\ pc = "cities"
    /\ \E resp \in CityResponses :
         LET r == largest100USCities(resp)
         IN  /\ cityCalls' = cityCalls + 1
             /\ lastReq' = CityRequest
             /\ cityResp' = resp
             /\ IF r.panic
                THEN /\ pc' = "panicked"
                     /\ exitCode' = 2
                     /\ lastOut' = "panic"
                     /\ UNCHANGED <<coords, err, fatal, skipLogged, summary>>
                ELSE /\ coords' = r.coords
                     /\ err' = r.err
                     /\ IF r.err # nil
                        THEN Fatalf("cities", r.err)
                        ELSE /\ pc' = "woe"
                             /\ UNCHANGED <<fatal, lastOut, exitCode, skipLogged, summary>>
    /\ UNCHANGED <<i, woeID, tempCount, tempSum, woeCalls, tempCalls, noTemp, gotSum, probe>>

\* woeID, err = coordinateWOEID(coord, httpClient, woeIDURLTemplate)
Resolve ==
    /\ pc = "woe"
    /\ LET coord == LoopCoord(coords, i)
       IN  \E resp \in WoeResponses(coord) :
             LET r == coordinateWOEID(resp)
             IN  /\ woeCalls' = woeCalls + 1
                 /\ lastReq' = WoeRequest(coord)
                 /\ woeID' = r.woeID
                 /\ err' = r.err
                 /\ IF WoeErrIsFatal(r.err)
                    THEN Fatalf("woe", r.err)
                    ELSE /\ pc' = "temp"
                         /\ UNCHANGED <<fatal, lastOut, exitCode, skipLogged, summary>>
    /\ UNCHANGED <<coords, i, tempCount, tempSum, cityCalls, tempCalls, cityResp,
                   noTemp, gotSum, probe>>

\* temperature, err = woeIDTemperature(httpClient, temperatureURLTemplate, woeID)
\* and the rest of the loop body.
Temperature ==
    /\ pc = "temp"
    /\ \E resp \in TempResponses(woeID) :
         LET r == woeIDTemperature(resp)
         IN  /\ tempCalls' = tempCalls + 1
             /\ lastReq' = TempRequest(woeID)
             /\ err' = r.err
             /\ noTemp' = IF r.err = ErrNoTemperature THEN noTemp + 1 ELSE noTemp
             /\ gotSum' = IF r.err = nil THEN gotSum + r.temperature ELSE gotSum
             /\ IF r.err # nil /\ ~TempErrIsRecoverable(r.err)
                THEN /\ Fatalf("temp", r.err)
                     /\ UNCHANGED <<i, woeID, tempCount, tempSum>>
                ELSE /\ IF r.err # nil
                        THEN /\ skipLogged' = skipLogged + 1
                             /\ lastOut' = "skip"
                        ELSE UNCHANGED <<skipLogged, lastOut>>
                     /\ LET acc == Accumulate(tempCount, tempSum, r.temperature, r.err)
                        IN  /\ tempCount' = acc.count
                            /\ tempSum' = acc.sum
                     /\ i' = i + 1
                     /\ woeID' = 0
                     /\ pc' = IF i + 1 = NumCities THEN "report" ELSE "woe"
                     /\ UNCHANGED <<fatal, exitCode, summary>>
    /\ UNCHANGED <<coords, cityCalls, woeCalls, cityResp, probe>>

ReportTwice ==
    /\ pc = "report"
    /\ summary' = summary \o << [n |-> tempCount, mean |-> FormatMean(tempSum, tempCount)],
                               [n |-> tempCount, mean |-> FormatMean(tempSum, tempCount)] >>
    /\ lastOut' = "summary"
    /\ pc' = "succeeded"
    /\ exitCode' = 0
    /\ UNCHANGED <<coords, i, woeID, err, tempCount, tempSum, skipLogged, fatal,
                   cityCalls, woeCalls, tempCalls, lastReq, cityResp, noTemp, gotSum, probe>>

\* logger.Printf("The average temperature in the %d most populous US cities
\* is: %.2fF", int(tempCount), tempSum/tempCount); main returns.
Report ==
    /\ pc = "report"
    /\ summary' = Append(summary, [n |-> tempCount, mean |-> FormatMean(tempSum, tempCount)])
    /\ lastOut' = "summary"
    /\ pc' = "succeeded"
    /\ exitCode' = 0
    /\ UNCHANGED <<coords, i, woeID, err, tempCount, tempSum, skipLogged, fatal,
                   cityCalls, woeCalls, tempCalls, lastReq, cityResp, noTemp, gotSum, probe>>

Next ==
    \/ FetchCities
    \/ Resolve
    \/ Temperature
    \/ Report

Spec == Init /\ [][Next]_vars

\* Every HTTP call returns and main() keeps running until it exits.
FairSpec == Spec /\ WF_vars(Next)

(***************************************************************************)
(* The two extraction functions on their own: the response is drawn from   *)
(* every array of at most MaxBodyLen elements over ProbeFields, and each   *)
(* function is applied to it once.                                         *)
(***************************************************************************)

MaxBodyLen == 2

ProbeFields == {Missing, Num(-2), Num(0), Num(5)}
ProbeElems == [woeid : ProbeFields, the_temp : ProbeFields]
ProbeBodies == UNION {[1 .. n -> ProbeElems] : n \in 0 .. MaxBodyLen}
ProbeResponses == {GetFailed, ReadFailed} \cup {Body(b) : b \in ProbeBodies}

ExtractInit ==
    /\ InitProgram
    /\ probe \in {[ProbeIdle EXCEPT !.resp = r] : r \in ProbeResponses}

ExtractWOEID ==
    /\ probe.woe.err = "unset"
    /\ probe' = [probe EXCEPT !.woe = coordinateWOEID(probe.resp)]
    /\ UNCHANGED progVars

ExtractTemperature ==
    /\ probe.temp.err = "unset"
    /\ probe' = [probe EXCEPT !.temp = woeIDTemperature(probe.resp)]
    /\ UNCHANGED progVars

ExtractNext ==
    \/ ExtractWOEID
    \/ ExtractTemperature

ExtractSpec == ExtractInit /\ [][ExtractNext]_vars

(***************************************************************************)
(* Properties                                                              *)
(***************************************************************************)

HttpCalls == cityCalls + woeCalls + tempCalls

\* Once the process has exited with a fatal error nothing more is requested
\* or printed.
AbortedIsFinal ==
    pc = "aborted" => UNCHANGED <<cityCalls, woeCalls, tempCalls, summary, skipLogged, fatal>>

\* C1: an iteration whose temperature fetch ends with ErrNoTemperature leaves
\* (tempSum, tempCount) as they were, logs one skip line and goes on with the
\* next city.
C1_SkipLeavesAggregate ==
    [][noTemp' = noTemp + 1 =>
          /\ tempSum' = tempSum
          /\ tempCount' = tempCount
          /\ skipLogged' = skipLogged + 1
          /\ i' = i + 1
          /\ pc' \in {"woe", "report"}]_vars

\* C2: a run with 100 cities, every resolver call successful and k < 100
\* fetches ending with ErrNoTemperature logs k skip lines, exits with status 0
\* and reports the sum of the retrieved readings divided by 100 - k.
C2_MeanOverRetrieved ==
    (pc = "succeeded" /\ noTemp < NumCities) =>
        /\ skipLogged = noTemp
        /\ exitCode = 0
        /\ Len(summary) = 1
        /\ summary[1].mean = FormatMean(gotSum, NumCities - noTemp)

\* C3: a cities response with fewer than 100 records (the empty one included)
\* makes largest100USCities fail with ErrNot100Cities, and main aborts with no
\* resolver call, no temperature call and no summary line.
C3_IncompleteCityListAborts ==
    (cityResp.kind = "ok" /\ Len(cityResp.body) < NumCities) =>
        /\ pc = "aborted"
        /\ err = ErrNot100Cities
        /\ fatal = <<[what |-> "cities", err |-> ErrNot100Cities]>>
        /\ exitCode = 1
        /\ woeCalls = 0
        /\ tempCalls = 0
        /\ summary = <<>>

C3_Witness ==
    /\ pc = "aborted"
    /\ err = ErrNot100Cities
    /\ cityResp.kind = "ok"
    /\ Len(cityResp.body) = 95

\* C4: when the resolver call of the i-th city fails with ErrNoWoe, main
\* aborts: no temperature fetch for that city, no call for a later city, and
\* no summary line for the cities processed before.
C4_NoWoeAborts ==
    /\ [][(woeCalls' = woeCalls + 1 /\ err' = ErrNoWoe) =>
             /\ pc' = "aborted"
             /\ exitCode' = 1
             /\ fatal' = <<[what |-> "woe", err |-> ErrNoWoe]>>
             /\ tempCalls' = tempCalls]_vars
    /\ [][AbortedIsFinal]_vars
    /\ []((pc = "aborted" /\ err = ErrNoWoe) =>
             /\ woeCalls = i + 1
             /\ tempCalls = i
             /\ summary = <<>>)

C4_Witness ==
    /\ pc = "aborted"
    /\ err = ErrNoWoe
    /\ woeCalls = 42
    /\ tempCalls = 41
    /\ tempCount = 41
    /\ summary = <<>>

\* C5: the run goes on after a failed component call exactly when the failure
\* is the temperature fetcher's ErrNoTemperature; every other failure (a
\* transport error of any component, ErrNot100Cities, ErrNoWoe) aborts the
\* run, after which there is no HTTP call and no summary line.
C5_OnlyNoTemperatureRecovers ==
    /\ [][(HttpCalls' = HttpCalls + 1 /\ err' # nil) =>
             /\ (pc' # "aborted") <=> (lastReq'.kind = "temp" /\ err' = ErrNoTemperature)
             /\ pc' \in {"aborted", "woe", "report"}
             /\ pc' = "aborted" => (exitCode' = 1 /\ summary' = <<>> /\ fatal' # <<>>)]_vars
    /\ [][AbortedIsFinal]_vars
    /\ [](pc = "aborted" => err \in {ErrGet, ErrRead, ErrNot100Cities, ErrNoWoe})

C5_Witness ==
    /\ pc = "woe"
    /\ lastReq.kind = "temp"
    /\ err = ErrNoTemperature
    /\ i = 3
    /\ exitCode = -1

\* C6: whatever the response (a cities response of any length included),
\* every component returns an outcome to main; the process ends only by
\* main's Fatalf or by main returning.
C6_ComponentsAlwaysReturn ==
    exitCode # -1 => pc \in {"aborted", "succeeded"}

\* C7: on a response that was read, coordinateWOEID returns the first
\* element's woeid when it is non-zero and fails with ErrNoWoe when the array
\* is empty or the woeid is zero or absent; woeIDTemperature does the same
\* with the_temp and ErrNoTemperature; a value returned with a nil error is
\* never zero.
C7_FirstElementOrSentinel ==
    LET b == probe.resp.body
        has(f) == Len(b) > 0 /\ b[1][f].exists /\ b[1][f].num # 0
    IN  /\ (probe.resp.kind = "ok" /\ probe.woe.err # "unset") =>
              IF has("woeid")
              THEN probe.woe = [woeID |-> b[1].woeid.num, err |-> nil]
              ELSE probe.woe.err = ErrNoWoe
        /\ (probe.resp.kind = "ok" /\ probe.temp.err # "unset") =>
              IF has("the_temp")
              THEN probe.temp = [temperature |-> b[1].the_temp.num, err |-> nil]
              ELSE probe.temp.err = ErrNoTemperature
        /\ probe.woe.err = nil => probe.woe.woeID # 0
        /\ probe.temp.err = nil => probe.temp.temperature # 0

C7_Witness ==
    /\ probe.resp.kind = "ok"
    /\ Len(probe.resp.body) = 2
    /\ probe.resp.body[1] = [woeid |-> Num(5), the_temp |-> Num(0)]
    /\ probe.woe = [woeID |-> 5, err |-> nil]
    /\ probe.temp.err = ErrNoTemperature

\* C8: the HTTP calls come in a fixed order: the cities call first and once;
\* then, in the order of the records of the cities response, the resolver
\* call of a city followed by its temperature call, which asks for the WOE ID
\* the resolver call returned; a run without fatal failure makes 1, 100 and
\* 100 calls.
C8_CallOrder ==
    /\ [][cityCalls' # cityCalls =>
             (HttpCalls = 0 /\ cityCalls' = 1 /\ lastReq' = CityRequest)]_vars
    /\ [][woeCalls' # woeCalls =>
             /\ woeCalls' = woeCalls + 1
             /\ cityCalls = 1
             /\ tempCalls = woeCalls
             /\ woeCalls < Len(cityResp.body)
             /\ lastReq' = WoeRequest(ToCoord(cityResp.body[woeCalls + 1]))]_vars
    /\ [][tempCalls' # tempCalls =>
             /\ tempCalls' = tempCalls + 1
             /\ woeCalls = tempCalls + 1
             /\ lastReq.kind = "woe"
             /\ lastReq' = TempRequest(ServerWoe([Latitude |-> lastReq.lat,
                                                  Longitude |-> lastReq.lon]))]_vars
    /\ [][HttpCalls' \in {HttpCalls, HttpCalls + 1}]_vars
    /\ [](pc = "succeeded" =>
             (cityCalls = 1 /\ woeCalls = NumCities /\ tempCalls = NumCities))

C8_Witness ==
    /\ pc = "succeeded"
    /\ cityCalls = 1
    /\ woeCalls = NumCities
    /\ tempCalls = NumCities
    /\ lastReq = TempRequest(ServerWoe(ToCoord(cityResp.body[NumCities])))

\* The final states as they are observed from outside the process.
RunAborted ==
    /\ exitCode > 0
    /\ fatal # <<>> \/ lastOut = "panic"
    /\ summary = <<>>

RunSucceeded ==
    /\ exitCode = 0
    /\ Len(summary) = 1
    /\ lastOut = "summary"
    /\ fatal = <<>>
    /\ i = NumCities
    /\ woeCalls = NumCities
    /\ tempCalls = NumCities

Phase ==
    IF pc = "cities" THEN 1
    ELSE IF pc \in {"woe", "temp"} THEN 2
    ELSE IF pc = "report" THEN 3
    ELSE 4

\* C9: if every HTTP call returns, the run ends, either aborted (non-zero
\* exit, a diagnostic, no summary line) or succeeded (the summary line once,
\* as the last output, after all 100 iterations); the phases fetch cities,
\* per-city loop, report are passed in that order and never re-entered, and
\* nothing is requested or printed once the run has ended.
C9_TerminatesOnce ==
    /\ <>(exitCode # -1)
    /\ [](exitCode # -1 => (Phase = 4 /\ (RunAborted \/ RunSucceeded)
                              /\ ~(RunAborted /\ RunSucceeded)))
    /\ [](exitCode = -1 => (summary = <<>> /\ fatal = <<>>))
    /\ [][Phase' >= Phase /\ (Phase' \in {2, 3} => Phase' <= Phase + 1)]_vars
    /\ [][exitCode # -1 =>
             UNCHANGED <<exitCode, cityCalls, woeCalls, tempCalls, lastReq,
                         summary, fatal, skipLogged, lastOut>>]_vars

C9_Witness ==
    /\ RunSucceeded
    /\ noTemp = 3
    /\ skipLogged = 3

====
